---- MODULE Spec2Model ----
(***************************************************************************)
(* The typescript-deno-plugin (DenoPlugin.create: the hooks it installs on *)
(* the language service host and the language service) and the language    *)
(* server's references handler (References), as state machines.            *)
(*                                                                         *)
(* Strings that the code inspects (paths, module names) are sequences of   *)
(* one-character strings, so that prefix tests, path.isAbsolute and        *)
(* path.resolve are computed and not assumed.  An optional value           *)
(* (T | undefined) is a sequence of length at most one: <<>> is undefined  *)
(* and <<v>> is the value v.                                               *)
(***************************************************************************)
EXTENDS Integers, Sequences, FiniteSets, TLC

\* ------------------------------------------------------------- bounds

\* The longest list of names handed to a resolution hook.
MaxNames == 2

\* The longest list of script file names the host may hold.
MaxScriptFiles == 3

\* ------------------------------------------------------------ strings

undefined == <<>>

Some(v) == <<v>>

IsDefined(o) == Len(o) > 0

\* String.prototype.startsWith / a regular expression anchored with ^.
StartsWith(s, prefix) ==
  /\ Len(s) >= Len(prefix)
  /\ SubSeq(s, 1, Len(prefix)) = prefix

EndsWith(s, suffix) ==
  /\ Len(s) >= Len(suffix)
  /\ SubSeq(s, Len(s) - Len(suffix) + 1, Len(s)) = suffix

\* The text of s after its first n characters.
Drop(s, n) == SubSeq(s, n + 1, Len(s))

\* ------------------------------------------------- node's path (posix)

\* path.isAbsolute
IsAbsolute(p) == Len(p) > 0 /\ p[1] = "/"

\* The segments of p between its "/" separators.
RECURSIVE SplitFrom(_, _, _)
SplitFrom(p, i, cur) ==
  IF i > Len(p) THEN <<cur>>
  ELSE IF p[i] = "/" THEN <<cur>> \o SplitFrom(p, i + 1, <<>>)
  ELSE SplitFrom(p, i + 1, Append(cur, p[i]))

Split(p) == SplitFrom(p, 1, <<>>)

\* normalizeString of node's path: "" and "." segments are skipped and ".."
\* removes the segment before it (at the root there is none to remove).
RECURSIVE NormalizeSegments(_, _, _)
NormalizeSegments(segs, i, acc) ==
  IF i > Len(segs) THEN acc
  ELSE IF segs[i] = <<>> \/ segs[i] = <<".">> THEN NormalizeSegments(segs, i + 1, acc)
  ELSE IF segs[i] = <<".", ".">>
    THEN NormalizeSegments(segs, i + 1,
                           IF Len(acc) > 0 THEN SubSeq(acc, 1, Len(acc) - 1) ELSE acc)
  ELSE NormalizeSegments(segs, i + 1, Append(acc, segs[i]))

RECURSIVE JoinSegments(_, _)
JoinSegments(segs, i) ==
  IF i > Len(segs) THEN <<>>
  ELSE <<"/">> \o segs[i] \o JoinSegments(segs, i + 1)

\* An absolute path in normal form.
NormalizeAbsolute(p) ==
  LET segs == NormalizeSegments(Split(p), 1, <<>>)
  IN IF Len(segs) = 0 THEN <<"/">> ELSE JoinSegments(segs, 1)

\* process.cwd(): create() changes it to the project's directory, "/p".
ProcessCwd == <<"/", "p">>

\* path.resolve(from, to): the arguments are taken from the right until the path
\* is absolute, the working directory last; empty arguments are skipped; the
\* result is normalized.
PathResolve(from, to) ==
  LET join(a, b) == IF Len(b) = 0 THEN a
                    ELSE IF Len(a) = 0 \/ IsAbsolute(b) THEN b
                    ELSE a \o <<"/">> \o b
  IN NormalizeAbsolute(join(ProcessCwd, join(from, to)))

\* path.dirname: the path up to its last separator, "." when it has none.
PathDirname(p) ==
  LET slashes == {i \in 1..Len(p) : p[i] = "/"}
      last == CHOOSE i \in slashes : \A j \in slashes : j <= i
  IN IF slashes = {} THEN <<".">>
     ELSE IF last = 1 THEN <<"/">>
     ELSE SubSeq(p, 1, last - 1)

\* ------------------------------------------------------ the file system

\* project.getCurrentDirectory(): the project's directory, "/p".
GetCurrentDirectory == <<"/", "p">>

\* "/p/a.ts", a source file of the project.
FileA == <<"/", "p", "/", "a", ".", "t", "s">>

\* "/l/a.ts", a symbolic link to "/p/a.ts".
LinkA == <<"/", "l", "/", "a", ".", "t", "s">>

\* "/p/untitled:a.ts": a real file whose name holds, but does not start with,
\* "untitled:".
FileU == <<"/", "p", "/", "u", "n", "t", "i", "t", "l", "e", "d", ":", "a", ".", "t", "s">>

\* "untitled:U", the name of a document that was never saved.
UntitledU == <<"u", "n", "t", "i", "t", "l", "e", "d", ":", "U">>

\* "/c", the directory of the cache of remote modules, and "/c/h/m", the cache
\* file of the module "http://h/m".
CacheRoot == <<"/", "c">>

CacheM == <<"/", "c", "/", "h", "/", "m">>

\* "/p/t.d.ts", a declaration file.
FileT == <<"/", "p", "/", "t", ".", "d", ".", "t", "s">>

\* "/deno/lib.deno.d.ts" is abbreviated "/d.ts": what getDenoDts() returns.
DenoDts == <<"/", "d", ".", "t", "s">>

\* The sets of files that may exist on disk.
FileSystems ==
  { {FileA, FileU, CacheM, FileT}, {FileA, FileU}, {CacheM} }

\* The containing files the host may name.
ContainingFiles == {FileA, LinkA, FileU, UntitledU}

\* The module names and type directive names the host may ask for:
\* "./a", "./x", "http://h/m" and "lib".
RelA == <<".", "/", "a">>

RelX == <<".", "/", "x">>

UrlM == <<"h", "t", "t", "p", ":", "/", "/", "h", "/", "m">>

BareLib == <<"l", "i", "b">>

Names == {RelA, RelX, UrlM, BareLib}

\* The lists of at most n elements of S.
RECURSIVE SeqsUpTo(_, _)
SeqsUpTo(S, n) ==
  IF n = 0 THEN {<<>>}
  ELSE LET shorter == SeqsUpTo(S, n - 1)
       IN shorter \cup {Append(s, x) : s \in {t \in shorter : Len(t) = n - 1}, x \in S}

NameLists == SeqsUpTo(Names, MaxNames)

\* ------------------------------------------------------- configuration

\* The values of the configuration's import_map: unset, "", "/m.json", "m.json"
\* and "../m.json".
MapAbs == <<"/", "m", ".", "j", "s", "o", "n">>

MapRel == <<"m", ".", "j", "s", "o", "n">>

MapUp == <<".", ".", "/", "m", ".", "j", "s", "o", "n">>

ImportMapSettings == {undefined, Some(<<>>), Some(MapAbs), Some(MapRel), Some(MapUp)}

\* DenoPluginConfig: the fields the hooks read.
Configs == [enable : BOOLEAN, import_map : ImportMapSettings]

\* -------------------------------------------------------------- state

VARIABLES
  config,           \* configurationManager.config
  existing,         \* the files on disk
  hasRealpath,      \* whether the project offers project.realpath
  hostSharesList,   \* whether the host's getScriptFileNames returns the list it holds
  hostScriptFiles,  \* the list of script file names the host holds
  openDocuments,    \* the documents the language server holds open
  call,             \* the hook call (or request) in progress, with what it did
  prev              \* an earlier call, kept to compare a later one with

vars ==
  <<config, existing, hasRealpath, hostSharesList, hostScriptFiles,
    openDocuments, call, prev>>

\* pathExistsSync / pathExists
PathExists(p) == p \in existing

\* ---------------------------------------------------- module resolver
\* core/module_resolver, core/import_map and core/deno_cache.

\* Specifier Classifier
Classify(specifier) ==
  IF StartsWith(specifier, <<".", "/">>) \/ StartsWith(specifier, <<".", ".", "/">>) THEN "Relative"
  ELSE IF \/ StartsWith(specifier, <<"h", "t", "t", "p", ":", "/", "/">>)
          \/ StartsWith(specifier, <<"h", "t", "t", "p", "s", ":", "/", "/">>)
          \/ StartsWith(specifier, <<"f", "i", "l", "e", ":", "/", "/">>) THEN "AbsoluteURL"
  ELSE "Bare"

\* The import map files on disk, each an ordered list of its `imports` entries:
\* "/m.json" is {"lib": "http://h/m"} and "/p/m.json" is {"lib": "./a", "l/": "./"}.
\* No file declares scopes.  A missing file gives the empty map.
LoadImportMap(mapFilePath) ==
  IF mapFilePath = Some(<<"/", "m", ".", "j", "s", "o", "n">>)
    THEN << [key |-> BareLib, target |-> UrlM] >>
  ELSE IF mapFilePath = Some(<<"/", "p", "/", "m", ".", "j", "s", "o", "n">>)
    THEN << [key |-> BareLib, target |-> RelA], [key |-> <<"l", "/">>, target |-> <<".", "/">>] >>
  ELSE <<>>

\* Whether the entry's key matches: exactly, or as a prefix when it ends with "/".
KeyMatches(key, specifier) ==
  \/ key = specifier
  \/ EndsWith(key, <<"/">>) /\ StartsWith(specifier, key)

\* Import Map Engine, resolve: the entry with the longest matching key, the first
\* declared among equals; a key ending with "/" keeps the rest of the specifier.
ImportMapResolve(map, specifier) ==
  LET matching == {i \in 1..Len(map) : KeyMatches(map[i].key, specifier)}
      best == {i \in matching :
                 \A j \in matching :
                   \/ Len(map[j].key) < Len(map[i].key)
                   \/ Len(map[j].key) = Len(map[i].key) /\ i <= j}
  IN IF matching = {} THEN undefined
     ELSE LET e == map[CHOOSE i \in best : TRUE]
          IN IF e.key = specifier THEN Some(e.target)
             ELSE Some(e.target \o Drop(specifier, Len(e.key)))

\* Cache Path Mapper, urlToPath: the cache root, then the URL's authority and path.
UrlToPath(url) ==
  LET rest == IF StartsWith(url, <<"h", "t", "t", "p", ":", "/", "/">>) THEN Drop(url, 7)
              ELSE IF StartsWith(url, <<"h", "t", "t", "p", "s", ":", "/", "/">>) THEN Drop(url, 8)
              ELSE Drop(url, 7)
  IN CacheRoot \o <<"/">> \o rest

\* Cache Path Mapper, pathToUrl: the inverse, for a path under the cache root.
PathToUrl(filepath) ==
  IF StartsWith(filepath, CacheRoot \o <<"/">>) /\ Len(filepath) > Len(CacheRoot) + 1
    THEN Some(<<"h", "t", "t", "p", ":", "/", "/">> \o Drop(filepath, Len(CacheRoot) + 1))
  ELSE undefined

\* The first of the paths probed for a relative specifier that exists: the literal
\* path, then the path with ".ts" appended.
ProbeRelative(path) ==
  IF PathExists(path) THEN Some(path)
  ELSE IF PathExists(path \o <<".", "t", "s">>) THEN Some(path \o <<".", "t", "s">>)
  ELSE undefined

\* ModuleResolver.create
ModuleResolverCreate(containingFile, importMapsFilepath) ==
  [containingFile |-> containingFile, importMapsFilepath |-> importMapsFilepath]

\* The resolution of one specifier; a substituted bare specifier is classified
\* and resolved again, `depth` times at most.
RECURSIVE ResolveModule(_, _, _)
ResolveModule(resolver, specifier, depth) ==
  LET kind == Classify(specifier)
  IN IF kind = "Relative"
       THEN LET found == ProbeRelative(
                           PathResolve(PathDirname(resolver.containingFile), specifier))
            IN IF IsDefined(found)
                 THEN Some([module |-> specifier, filepath |-> found[1]])
                 ELSE undefined
     ELSE IF kind = "AbsoluteURL"
       THEN IF PathExists(UrlToPath(specifier))
              THEN Some([module |-> specifier, filepath |-> UrlToPath(specifier)])
              ELSE undefined
     ELSE LET target == ImportMapResolve(
                          LoadImportMap(resolver.importMapsFilepath), specifier)
          IN IF IsDefined(target) /\ depth > 0
               THEN ResolveModule(resolver, target[1], depth - 1)
               ELSE undefined

\* ModuleResolver.resolveModules: one result per specifier, in order.
ResolveModules(resolver, specifiers) ==
  [i \in 1..Len(specifiers) |-> ResolveModule(resolver, specifiers[i], 1)]

\* --------------------------------------------------- the host's originals
\* What create() binds before it installs its own hooks.  The host is the
\* compiler service: it resolves a relative name against the containing file's
\* directory and knows neither URLs nor import maps.

\* project.realpath: a symbolic link is followed, any other path is itself.
Realpath(p) == IF p = LinkA THEN FileA ELSE p

HostResolveModuleName(name, containingFile) ==
  LET found == IF Classify(name) = "Relative"
                 THEN ProbeRelative(PathResolve(PathDirname(containingFile), name))
                 ELSE undefined
  IN IF IsDefined(found)
       THEN Some([resolvedFileName |-> found[1], extension |-> ".ts",
                  isExternalLibraryImport |-> FALSE])
       ELSE undefined

\* resolveModuleNames, the host's own: one result per name it is given.
HostResolveModuleNames(moduleNames, containingFile) ==
  [i \in 1..Len(moduleNames) |-> HostResolveModuleName(moduleNames[i], containingFile)]

HostResolveTypeReferenceDirective(name, containingFile) ==
  LET found == IF Classify(name) = "Relative"
                 THEN ProbeRelative(PathResolve(PathDirname(containingFile), name))
                 ELSE undefined
  IN IF IsDefined(found)
       THEN Some([resolvedFileName |-> found[1], primary |-> TRUE])
       ELSE undefined

\* resolveTypeReferenceDirectives, the host's own: one result per name it is given.
HostResolveTypeReferenceDirectives(typeDirectiveNames, containingFile) ==
  [i \in 1..Len(typeDirectiveNames) |->
     HostResolveTypeReferenceDirective(typeDirectiveNames[i], containingFile)]

\* --------------------------------------------------- compilation settings

OptionKeys ==
  {"allowJs", "checkJs", "strict", "esModuleInterop", "jsx", "module",
   "moduleResolution", "outDir", "resolveJsonModule", "sourceMap", "stripComments",
   "target", "noEmit", "noEmitHelpers", "lib"}

\* Compiler options: each key with its value, or undefined when it is not set.
DEFAULT_OPTIONS ==
  [k \in OptionKeys |->
     CASE k = "allowJs" -> Some("true")
       [] k = "checkJs" -> Some("false")
       [] k = "strict" -> Some("true")
       [] k = "esModuleInterop" -> Some("true")
       [] k = "jsx" -> Some("React")
       [] k = "module" -> Some("ESNext")
       [] k = "moduleResolution" -> Some("NodeJs")
       [] k = "outDir" -> Some("$deno$")
       [] k = "resolveJsonModule" -> Some("true")
       [] k = "sourceMap" -> Some("true")
       [] k = "stripComments" -> Some("true")
       [] k = "target" -> Some("ESNext")
       [] k = "noEmit" -> Some("true")
       [] k = "noEmitHelpers" -> Some("true")
       [] OTHER -> undefined]

MustOverwriteKeys ==
  {"jsx", "module", "moduleResolution", "resolveJsonModule", "strict", "noEmit",
   "noEmitHelpers"}

MUST_OVERWRITE_OPTIONS ==
  [k \in OptionKeys |-> IF k \in MustOverwriteKeys THEN DEFAULT_OPTIONS[k] ELSE undefined]

\* deepmerge's merge(x, y) on options whose values are not objects: the keys of
\* both, with y's value where y sets the key.
Merge(x, y) == [k \in OptionKeys |-> IF IsDefined(y[k]) THEN y[k] ELSE x[k]]

\* The project's own settings: the options it may set, each to a value that
\* differs from the plugin's.
ProjectValue(k) ==
  CASE k = "jsx" -> "Preserve"
    [] k = "strict" -> "false"
    [] k = "noEmit" -> "false"
    [] k = "module" -> "CommonJS"
    [] k = "allowJs" -> "false"
    [] k = "outDir" -> "dist"
    [] k = "lib" -> "dom"
    [] OTHER -> "false"

ProjectKeys == {"jsx", "strict", "noEmit", "module", "allowJs", "outDir", "lib"}

ProjectConfigs ==
  { [k \in OptionKeys |-> IF k \in set THEN Some(ProjectValue(k)) ELSE undefined] :
      set \in SUBSET ProjectKeys }

\* CompilationSettings with the project's settings merged last.
CompilationSettingsProjectLast(enable, projectConfig) ==
  IF ~enable THEN projectConfig
  ELSE Merge(Merge(DEFAULT_OPTIONS, MUST_OVERWRITE_OPTIONS), projectConfig)

\* The body of the installed getCompilationSettings.
CompilationSettings(enable, projectConfig) ==
  IF ~enable THEN projectConfig
  ELSE Merge(Merge(DEFAULT_OPTIONS, projectConfig), MUST_OVERWRITE_OPTIONS)

\* ------------------------------------------------------ the two resolvers

\* RealContainingFile without the substitution for an unsaved document.
RealContainingFileUnchecked(containingFile) ==
  IF hasRealpath THEN Realpath(containingFile) ELSE containingFile

\* realContainingFile of resolveModuleNames
RealContainingFile(containingFile) ==
  LET realContainingFile == IF hasRealpath THEN Realpath(containingFile)
                            ELSE containingFile
  IN IF StartsWith(realContainingFile, <<"u", "n", "t", "i", "t", "l", "e", "d", ":">>) THEN GetCurrentDirectory
     ELSE realContainingFile

\* realContainingFile of resolveTypeReferenceDirectives
RealContainingFileOfDirectives(containingFile) ==
  LET realContainingFile == IF hasRealpath THEN Realpath(containingFile)
                            ELSE containingFile
  IN IF StartsWith(realContainingFile, <<"u", "n", "t", "i", "t", "l", "e", "d", ":">>) THEN GetCurrentDirectory
     ELSE realContainingFile

\* importMapsFilepath of resolveModuleNames; "" and undefined are both falsy.
ImportMapsFilepath(import_map) ==
  IF IsDefined(import_map) /\ Len(import_map[1]) > 0
    THEN IF IsAbsolute(import_map[1]) THEN Some(import_map[1])
         ELSE Some(PathResolve(GetCurrentDirectory, import_map[1]))
  ELSE undefined

\* ImportMapsFilepathOfDirectives with a relative path left as it is configured.
ImportMapsFilepathVerbatim(import_map) ==
  IF IsDefined(import_map) /\ Len(import_map[1]) > 0 THEN Some(import_map[1])
  ELSE undefined

\* importMapsFilepath of resolveTypeReferenceDirectives
ImportMapsFilepathOfDirectives(import_map) ==
  IF IsDefined(import_map) /\ Len(import_map[1]) > 0
    THEN IF IsAbsolute(import_map[1]) THEN Some(import_map[1])
         ELSE Some(PathResolve(GetCurrentDirectory, import_map[1]))
  ELSE undefined

\* ModuleNamesResolver with the resolver of an earlier call kept and used again.
ModuleNamesResolverReused(containingFile) ==
  IF prev.hook # "idle" /\ IsDefined(prev.resolver) THEN prev.resolver[1]
  ELSE ModuleResolverCreate(RealContainingFile(containingFile),
                            ImportMapsFilepath(config.import_map))

\* The resolver the installed resolveModuleNames creates.
ModuleNamesResolver(containingFile) ==
  ModuleResolverCreate(RealContainingFile(containingFile),
                       ImportMapsFilepath(config.import_map))

\* The resolver the installed resolveTypeReferenceDirectives creates.
DirectivesResolver(containingFile) ==
  ModuleResolverCreate(RealContainingFileOfDirectives(containingFile),
                       ImportMapsFilepathOfDirectives(config.import_map))

\* ModuleNamesForHost with the unresolved names dropped instead of handed over.
ModuleNamesForHostDropping(resolvedModules, moduleNames) ==
  LET kept == SelectSeq(resolvedModules, IsDefined)
  IN [i \in 1..Len(kept) |-> kept[i][1].module]

\* The names the installed resolveModuleNames hands to the host's own.
ModuleNamesForHost(resolvedModules, moduleNames) ==
  [index \in 1..Len(resolvedModules) |->
     IF IsDefined(resolvedModules[index]) THEN resolvedModules[index][1].module
     ELSE moduleNames[index]]

\* ModuleNamesEntry without the test that the host left the entry undefined.
ModuleNamesEntryAlways(v, cacheModule) ==
  IF IsDefined(cacheModule)
     /\ IsAbsolute(cacheModule[1].filepath) /\ PathExists(cacheModule[1].filepath)
    THEN Some([resolvedFileName |-> cacheModule[1].filepath, extension |-> ".js",
               isExternalLibraryImport |-> FALSE])
  ELSE v

\* The entry the installed resolveModuleNames returns at `index`.
ModuleNamesEntry(v, cacheModule) ==
  IF ~IsDefined(v) /\ IsDefined(cacheModule)
     /\ IsAbsolute(cacheModule[1].filepath) /\ PathExists(cacheModule[1].filepath)
    THEN Some([resolvedFileName |-> cacheModule[1].filepath, extension |-> ".js",
               isExternalLibraryImport |-> FALSE])
  ELSE v

\* The names the installed resolveTypeReferenceDirectives hands to the host's own.
DirectivesForHost(resolvedModules) ==
  LET kept == SelectSeq(resolvedModules, IsDefined)
  IN [i \in 1..Len(kept) |-> kept[i][1].module]

\* ------------------------------------------------------------ the hooks
\* A hook is called while no other call is in progress (the host calls
\* synchronously); `call` then holds what the call read, did and returned, until
\* the host takes the result (Return).

Idle == [hook |-> "idle"]

\* languageServiceHost.getCompilationSettings; the host's own returns the
\* project's settings of the moment, projectConfig.
GetCompilationSettings(projectConfig) ==
  /\ call.hook = "idle"
  /\ call' = [hook |-> "getCompilationSettings",
              enable |-> config.enable,
              resolver |-> undefined,
              hostResult |-> projectConfig,
              result |-> CompilationSettings(config.enable, projectConfig)]
  /\ UNCHANGED <<config, existing, hasRealpath, hostSharesList, hostScriptFiles,
                 openDocuments, prev>>

\* The list the installed getScriptFileNames returns, given the one the host's
\* own returned: the declaration files are pushed onto that very list.
ScriptFileNames(enable, scriptFileNames) ==
  IF ~enable THEN scriptFileNames
  ELSE Append(scriptFileNames, DenoDts)

\* languageServiceHost.getScriptFileNames.  The array the host's own returns is
\* either the one the host holds or a copy of it; a push onto the former changes
\* the host's list too.
GetScriptFileNames ==
  /\ call.hook = "idle"
  /\ (config.enable /\ hostSharesList) => Len(hostScriptFiles) < MaxScriptFiles
  /\ LET scriptFileNames == hostScriptFiles
         result == ScriptFileNames(config.enable, scriptFileNames)
     IN /\ call' = [hook |-> "getScriptFileNames",
                    enable |-> config.enable,
                    resolver |-> undefined,
                    hostResult |-> scriptFileNames,
                    result |-> result]
        /\ hostScriptFiles' = IF hostSharesList THEN result ELSE hostScriptFiles
  /\ UNCHANGED <<config, existing, hasRealpath, hostSharesList, openDocuments, prev>>

\* languageServiceHost.resolveTypeReferenceDirectives
ResolveTypeReferenceDirectives(typeDirectiveNames, containingFile) ==
  /\ call.hook = "idle"
  /\ IF ~config.enable
       THEN call' = [hook |-> "resolveTypeReferenceDirectives",
                     enable |-> FALSE,
                     import_map |-> config.import_map,
                     names |-> typeDirectiveNames,
                     containingFile |-> containingFile,
                     resolver |-> undefined,
                     resolvedModules |-> <<>>,
                     toHost |-> typeDirectiveNames,
                     hostResult |-> HostResolveTypeReferenceDirectives(
                                      typeDirectiveNames, containingFile),
                     result |-> HostResolveTypeReferenceDirectives(
                                  typeDirectiveNames, containingFile)]
       ELSE LET resolver == DirectivesResolver(containingFile)
                resolvedModules == ResolveModules(resolver, typeDirectiveNames)
                toHost == DirectivesForHost(resolvedModules)
            IN call' = [hook |-> "resolveTypeReferenceDirectives",
                        enable |-> TRUE,
                        import_map |-> config.import_map,
                        names |-> typeDirectiveNames,
                        containingFile |-> containingFile,
                        resolver |-> Some(resolver),
                        resolvedModules |-> resolvedModules,
                        toHost |-> toHost,
                        hostResult |-> HostResolveTypeReferenceDirectives(
                                         toHost, containingFile),
                        result |-> HostResolveTypeReferenceDirectives(
                                     toHost, containingFile)]
  /\ UNCHANGED <<config, existing, hasRealpath, hostSharesList, hostScriptFiles,
                 openDocuments, prev>>

\* languageServiceHost.resolveModuleNames
ResolveModuleNames(moduleNames, containingFile) ==
  /\ call.hook = "idle"
  /\ IF ~config.enable
       THEN call' = [hook |-> "resolveModuleNames",
                     enable |-> FALSE,
                     import_map |-> config.import_map,
                     names |-> moduleNames,
                     containingFile |-> containingFile,
                     resolver |-> undefined,
                     resolvedModules |-> <<>>,
                     toHost |-> moduleNames,
                     hostResult |-> HostResolveModuleNames(moduleNames, containingFile),
                     result |-> HostResolveModuleNames(moduleNames, containingFile)]
       ELSE LET resolver == ModuleNamesResolver(containingFile)
                resolvedModules == ResolveModules(resolver, moduleNames)
                toHost == ModuleNamesForHost(resolvedModules, moduleNames)
                hostResult == HostResolveModuleNames(toHost, containingFile)
            IN call' = [hook |-> "resolveModuleNames",
                        enable |-> TRUE,
                        import_map |-> config.import_map,
                        names |-> moduleNames,
                        containingFile |-> containingFile,
                        resolver |-> Some(resolver),
                        resolvedModules |-> resolvedModules,
                        toHost |-> toHost,
                        hostResult |-> hostResult,
                        result |-> [index \in 1..Len(hostResult) |->
                                      ModuleNamesEntry(hostResult[index],
                                                       resolvedModules[index])]]
  /\ UNCHANGED <<config, existing, hasRealpath, hostSharesList, hostScriptFiles,
                 openDocuments, prev>>

\* ---------------------------------------------------------- diagnostics

\* The longest list of diagnostics the host reports for a file.
MaxDiagnostics == 2

\* The codes of the diagnostics the host may report: the two the plugin ignores
\* and one it does not (2304, cannot find name).
DiagnosticCodes == {2691, 1103, 2304}

ignoreCodeMapInDeno == {2691, 1103}

DiagnosticLists ==
  {[i \in 1..Len(codes) |-> [code |-> codes[i]]] :
     codes \in SeqsUpTo(DiagnosticCodes, MaxDiagnostics)}

IsNotIgnored(v) == v.code \notin ignoreCodeMapInDeno

\* SemanticDiagnostics without the test of the enable flag.
SemanticDiagnosticsAlways(enable, diagnostics) ==
  SelectSeq(diagnostics, IsNotIgnored)

\* The body of the installed getSemanticDiagnostics.
SemanticDiagnostics(enable, diagnostics) ==
  IF ~enable THEN diagnostics
  ELSE SelectSeq(diagnostics, IsNotIgnored)

\* languageService.getSemanticDiagnostics; the host's own reports `diagnostics`.
GetSemanticDiagnostics(filename, diagnostics) ==
  /\ call.hook = "idle"
  /\ call' = [hook |-> "getSemanticDiagnostics",
              enable |-> config.enable,
              resolver |-> undefined,
              filename |-> filename,
              hostResult |-> diagnostics,
              result |-> SemanticDiagnostics(config.enable, diagnostics)]
  /\ UNCHANGED <<config, existing, hasRealpath, hostSharesList, hostScriptFiles,
                 openDocuments, prev>>

\* ----------------------------------------------------- completion details

\* normalizeImportStatement (core/deno_normalize_import_statement): the rewriting
\* of an import statement, kept as the statement marked "#".
NormalizeImportStatement(fileName, newText) == <<"#">> \o newText

\* normalizeFilepath (core/util): separators become the platform's, "/".
NormalizeFilepath(text) == [i \in 1..Len(text) |-> IF text[i] = "\\" THEN "/" ELSE text[i]]

\* CacheModule.create(filepath).url.href: the URL of a file of the cache that
\* exists, undefined for any other file.
CacheModuleUrl(filepath) ==
  IF PathExists(filepath) THEN PathToUrl(filepath) ELSE undefined

\* An import statement, `import "./a"`, and the texts of a completion's source:
\* "../c/h/m" (from "/p", the cache file of "http://h/m") and "./a".
ImportText == <<"i", "m", "p", "o", "r", "t", " ", "\"", ".", "/", "a", "\"">>

SourceCache == <<".", ".", "/", "c", "/", "h", "/", "m">>

\* The details the host's own getCompletionEntryDetails may return.
DetailsChanges ==
  << [isNewFile |-> FALSE, textChanges |-> << [newText |-> ImportText] >>],
     [isNewFile |-> TRUE, textChanges |-> << [newText |-> ImportText] >>] >>

DetailsSource ==
  << [kind |-> "text", text |-> SourceCache],
     [kind |-> "text", text |-> RelA],
     [kind |-> "punctuation", text |-> SourceCache] >>

DetailsInputs ==
  { undefined,
    Some([kindModifiers |-> "export",
          codeActions |-> Some(<< [changes |-> DetailsChanges] >>),
          source |-> Some(DetailsSource)]),
    Some([kindModifiers |-> "",
          codeActions |-> Some(<< [changes |-> DetailsChanges] >>),
          source |-> Some(DetailsSource)]),
    Some([kindModifiers |-> "export", codeActions |-> undefined, source |-> undefined]),
    Some([kindModifiers |-> "export", codeActions |-> Some(<<>>), source |-> Some(<<>>)]) }

\* A change of a code action after the plugin's rewriting.
DetailsChange(fileName, change) ==
  IF change.isNewFile THEN change
  ELSE [change EXCEPT !.textChanges =
          [i \in 1..Len(change.textChanges) |->
             [newText |-> NormalizeImportStatement(
                            fileName, change.textChanges[i].newText)]]]

\* A part of the source after the plugin's rewriting.
DetailsSourcePart(fileName, source) ==
  IF source.kind # "text" THEN source
  ELSE LET absoluteFilepath ==
             PathResolve(PathDirname(fileName), NormalizeFilepath(source.text))
           url == CacheModuleUrl(absoluteFilepath)
       IN IF IsAbsolute(absoluteFilepath) /\ IsDefined(url)
            THEN [source EXCEPT !.text = url[1]]
            ELSE source

\* The body of the installed getCompletionEntryDetails.
CompletionEntryDetails(enable, fileName, details) ==
  IF ~enable THEN details
  ELSE IF ~(IsDefined(details) /\ details[1].kindModifiers = "export") THEN details
  ELSE LET d == details[1]
           codeActions ==
             IF IsDefined(d.codeActions)
               THEN Some([a \in 1..Len(d.codeActions[1]) |->
                            [changes |->
                               [c \in 1..Len(d.codeActions[1][a].changes) |->
                                  DetailsChange(fileName,
                                                d.codeActions[1][a].changes[c])]]])
               ELSE undefined
           source ==
             IF IsDefined(d.source)
               THEN Some([i \in 1..Len(d.source[1]) |->
                            DetailsSourcePart(fileName, d.source[1][i])])
               ELSE undefined
       IN Some([kindModifiers |-> d.kindModifiers,
                codeActions |-> codeActions,
                source |-> source])

\* languageService.getCompletionEntryDetails; the host's own returns `details`.
GetCompletionEntryDetails(fileName, details) ==
  /\ call.hook = "idle"
  /\ call' = [hook |-> "getCompletionEntryDetails",
              enable |-> config.enable,
              resolver |-> undefined,
              filename |-> fileName,
              hostResult |-> details,
              result |-> CompletionEntryDetails(config.enable, fileName, details)]
  /\ UNCHANGED <<config, existing, hasRealpath, hostSharesList, hostScriptFiles,
                 openDocuments, prev>>

\* ------------------------------------------------------- configuration

\* ConfigurationManager.update: the configuration becomes the one given.
ConfigurationUpdate(old, c) == c

\* DenoPlugin.onConfigurationChanged
OnConfigurationChanged(c) ==
  /\ call.hook = "idle"
  /\ config' = ConfigurationUpdate(config, c)
  /\ UNCHANGED <<existing, hasRealpath, hostSharesList, hostScriptFiles,
                 openDocuments, call, prev>>

\* The host takes the result of the call.
Return ==
  /\ call.hook # "idle"
  /\ call' = Idle
  /\ UNCHANGED <<config, existing, hasRealpath, hostSharesList, hostScriptFiles,
                 openDocuments, prev>>

\* The files a hook may be asked about.
FileNames == {FileA, FileU}

Init ==
  /\ config \in Configs
  /\ existing \in FileSystems
  /\ hasRealpath \in BOOLEAN
  /\ hostSharesList \in BOOLEAN
  /\ hostScriptFiles \in {<<>>, <<FileT, FileA>>}
  /\ openDocuments = undefined
  /\ call = Idle
  /\ prev = Idle

Next ==
  \/ \E projectConfig \in ProjectConfigs : GetCompilationSettings(projectConfig)
  \/ GetScriptFileNames
  \/ \E names \in NameLists, containingFile \in ContainingFiles :
       ResolveTypeReferenceDirectives(names, containingFile)
  \/ \E names \in NameLists, containingFile \in ContainingFiles :
       ResolveModuleNames(names, containingFile)
  \/ \E filename \in FileNames, diagnostics \in DiagnosticLists :
       GetSemanticDiagnostics(filename, diagnostics)
  \/ \E fileName \in FileNames, details \in DetailsInputs :
       GetCompletionEntryDetails(fileName, details)
  \/ \E c \in Configs : OnConfigurationChanged(c)
  \/ Return

Spec == Init /\ [][Next]_vars

\* ------------------------------------------- independence of the calls
\* The resolution hooks alone, with configuration updates between them; an
\* earlier call may be kept (Remember) to compare a later one with.

\* The longest list of names of the calls that are compared.
MaxComparedNames == 1

ComparedNameLists == SeqsUpTo({BareLib, RelA}, MaxComparedNames)

ComparedFiles == {FileA, UntitledU}

ComparedConfigs == [enable : BOOLEAN, import_map : {undefined, Some(MapAbs), Some(MapRel)}]

\* The call in progress returns and is the one later calls are compared with.
Remember ==
  /\ call.hook \in {"resolveModuleNames", "resolveTypeReferenceDirectives"}
  /\ prev' = call
  /\ call' = Idle
  /\ UNCHANGED <<config, existing, hasRealpath, hostSharesList, hostScriptFiles,
                 openDocuments>>

InitIndependence ==
  /\ config \in ComparedConfigs
  /\ existing = {FileA, FileU, CacheM, FileT}
  /\ hasRealpath = TRUE
  /\ hostSharesList = FALSE
  /\ hostScriptFiles = <<>>
  /\ openDocuments = undefined
  /\ call = Idle
  /\ prev = Idle

NextIndependence ==
  \/ \E names \in ComparedNameLists, containingFile \in ComparedFiles :
       ResolveTypeReferenceDirectives(names, containingFile)
  \/ \E names \in ComparedNameLists, containingFile \in ComparedFiles :
       ResolveModuleNames(names, containingFile)
  \/ \E c \in ComparedConfigs : OnConfigurationChanged(c)
  \/ Remember
  \/ Return

SpecIndependence == InitIndependence /\ [][NextIndependence]_vars

\* ------------------------------------------- the references handler
\* server/src/language/references.ts, with the document store and the scan for
\* type-hint pragmas (server/src/language/deno_types) it reads.

\* The last line and the last column a position may name.
MaxLine == 1

MaxCharacter == 3

\* "/p/n.d.ts", a declaration file that does not exist.
FileN == <<"/", "p", "/", "n", ".", "d", ".", "t", "s">>

Positions == [line : 0..MaxLine, character : 0..MaxCharacter]

\* A pragma on line `line` naming `filepath`: the path literal spans the columns
\* 1 to 2 of that line.
TypeHintComment(filepath, line) ==
  [filepath |-> filepath,
   contentRange |-> [start |-> [line |-> line, character |-> 1],
                     end |-> [line |-> line, character |-> 2]]]

\* getDenoTypesHintsFromDocument: the pragmas of a document in the order of their
\* lines, at most one on a line.
RECURSIVE HintLists(_)
HintLists(line) ==
  IF line > MaxLine THEN {<<>>}
  ELSE LET rest == HintLists(line + 1)
       IN rest \cup {<<TypeHintComment(f, line)>> \o r : f \in {FileT, FileN, FileU}, r \in rest}

TextDocumentHints == HintLists(0)

\* The document the handler may be asked about, and one that is never opened.
DocumentUri == "file:///p/a.ts"

Uris == {DocumentUri, "file:///p/b.ts"}

\* URI.file(filepath).toString(): the scheme, an empty authority and the path
\* with its ":" percent-encoded.
UriFileToString(filepath) ==
  LET Encode(c) == IF c = ":" THEN <<"%", "3", "A">> ELSE <<c>>
      enc[i \in 0..Len(filepath)] == IF i = 0 THEN <<>> ELSE enc[i - 1] \o Encode(filepath[i])
  IN <<"f", "i", "l", "e", ":", "/", "/">> \o enc[Len(filepath)]

\* PositionInRange without the comparison of the lines.
PositionInRangeColumnsOnly(position, start, end) ==
  /\ position.character >= start.character
  /\ position.character <= end.character

\* The test of the handler's loop: line and column are compared separately.
PositionInRange(position, start, end) ==
  /\ position.line >= start.line
  /\ position.line <= end.line
  /\ position.character >= start.character
  /\ position.character <= end.character

\* Location.create(uri, Range.create(0, 0, 0, 0))
LocationAtStart(uri) ==
  [uri |-> uri,
   range |-> [start |-> [line |-> 0, character |-> 0],
              end |-> [line |-> 0, character |-> 0]]]

\* The locations the handler collects from the document's pragmas.
RECURSIVE Locations(_, _)
Locations(denoTypesComments, position) ==
  IF Len(denoTypesComments) = 0 THEN <<>>
  ELSE LET typeComment == Head(denoTypesComments)
           here == IF /\ PositionInRange(position, typeComment.contentRange.start,
                                         typeComment.contentRange.end)
                      /\ PathExists(typeComment.filepath)
                     THEN <<LocationAtStart(UriFileToString(typeComment.filepath))>>
                     ELSE <<>>
       IN here \o Locations(Tail(denoTypesComments), position)

\* documents.get(uri)
DocumentsGet(uri) == IF uri = DocumentUri THEN openDocuments ELSE undefined

\* connection.onReferences: undefined for a document that is not open.
OnReferences(uri, position) ==
  /\ call.hook = "idle"
  /\ LET document == DocumentsGet(uri)
     IN call' = [hook |-> "onReferences",
                 uri |-> uri,
                 position |-> position,
                 document |-> document,
                 result |-> IF ~IsDefined(document) THEN undefined
                            ELSE Some(Locations(document[1], position))]
  /\ UNCHANGED <<config, existing, hasRealpath, hostSharesList, hostScriptFiles,
                 openDocuments, prev>>

\* The editor opens the document, or changes its text.
DidOpen(denoTypesComments) ==
  /\ call.hook = "idle"
  /\ openDocuments' = Some(denoTypesComments)
  /\ UNCHANGED <<config, existing, hasRealpath, hostSharesList, hostScriptFiles,
                 call, prev>>

\* The editor closes the document.
DidClose ==
  /\ call.hook = "idle"
  /\ IsDefined(openDocuments)
  /\ openDocuments' = undefined
  /\ UNCHANGED <<config, existing, hasRealpath, hostSharesList, hostScriptFiles,
                 call, prev>>

InitReferences ==
  /\ config \in {[enable |-> TRUE, import_map |-> undefined]}
  /\ existing \in FileSystems
  /\ hasRealpath = TRUE
  /\ hostSharesList = FALSE
  /\ hostScriptFiles = <<>>
  /\ openDocuments = undefined
  /\ call = Idle
  /\ prev = Idle

NextReferences ==
  \/ \E denoTypesComments \in TextDocumentHints : DidOpen(denoTypesComments)
  \/ DidClose
  \/ \E uri \in Uris, position \in Positions : OnReferences(uri, position)
  \/ Return

SpecReferences == InitReferences /\ [][NextReferences]_vars

\* ------------------------------------------------------------ the claims

ResolveHooks == {"resolveModuleNames", "resolveTypeReferenceDirectives"}

PluginHooks ==
  {"getCompilationSettings", "getScriptFileNames", "resolveTypeReferenceDirectives",
   "getSemanticDiagnostics", "getCompletionEntryDetails", "resolveModuleNames"}

\* The name the claims expect the host's own resolver to receive at index i.
HandedOver(i) ==
  IF IsDefined(call.resolvedModules[i]) THEN call.resolvedModules[i][1].module
  ELSE call.names[i]

\* The module the plugin makes of a resolved module's cache file.
CacheFileModule(resolved) ==
  Some([resolvedFileName |-> resolved.filepath, extension |-> ".js",
        isExternalLibraryImport |-> FALSE])

\* C1: an enabled resolveModuleNames returns one entry per module name, and
\* entry i is made from name i alone: the host's own resolver receives, at index
\* i, the resolved `module` of name i, or name i itself when the resolver left it
\* unresolved, and entry i is the host's result for it or the cache file of name i.
C1_ModuleNamesIndexAligned ==
  (call.hook = "resolveModuleNames" /\ call.enable) =>
    /\ Len(call.result) = Len(call.names)
    /\ Len(call.toHost) = Len(call.names)
    /\ Len(call.resolvedModules) = Len(call.names)
    /\ \A i \in 1..Len(call.names) :
         /\ call.resolvedModules[i] = ResolveModule(call.resolver[1], call.names[i], 1)
         /\ call.toHost[i] = HandedOver(i)
         /\ call.hostResult[i] = HostResolveModuleName(HandedOver(i), call.containingFile)
         /\ \/ call.result[i] = call.hostResult[i]
            \/ /\ IsDefined(call.resolvedModules[i])
               /\ call.result[i] = CacheFileModule(call.resolvedModules[i][1])

\* A call with two names, the first resolved and the second not.
C1_Witness ==
  /\ call.hook = "resolveModuleNames"
  /\ call.enable
  /\ Len(call.names) = 2
  /\ IsDefined(call.resolvedModules[1])
  /\ ~IsDefined(call.resolvedModules[2])
  /\ call.toHost[2] = call.names[2]

\* C2: an enabled resolveTypeReferenceDirectives hands the host's own resolver
\* one entry per directive name, in order, an unresolved name as it is, so that
\* the returned list has one entry per name.
C2_DirectivesIndexAligned ==
  (call.hook = "resolveTypeReferenceDirectives" /\ call.enable) =>
    /\ Len(call.toHost) = Len(call.names)
    /\ Len(call.result) = Len(call.names)
    /\ \A i \in 1..Len(call.names) : call.toHost[i] = HandedOver(i)

\* The order of positions in a document.
PositionLeq(a, b) ==
  \/ a.line < b.line
  \/ a.line = b.line /\ a.character <= b.character

\* The pragmas of the requested document whose content range holds the position.
PragmasAt(document, position) ==
  {i \in 1..Len(document) :
     /\ PositionLeq(document[i].contentRange.start, position)
     /\ PositionLeq(position, document[i].contentRange.end)}

\* C3: a references request on an open document yields exactly one location, the
\* named file's URI at (0,0)-(0,0), when the position is inside the content range
\* of a pragma whose file exists, and no location when the position is outside
\* every content range or the pragma's file does not exist.
C3_ReferencesOfPragma ==
  (call.hook = "onReferences" /\ IsDefined(call.document)) =>
    LET document == call.document[1]
        at == PragmasAt(document, call.position)
        found == {i \in at : PathExists(document[i].filepath)}
    IN /\ IsDefined(call.result)
       /\ \A n \in 1..Len(call.result[1]) :
            call.result[1][n].range =
              [start |-> [line |-> 0, character |-> 0],
               end |-> [line |-> 0, character |-> 0]]
       /\ found = {} => call.result[1] = <<>>
       /\ \A i \in found :
            call.result[1] =
              << [uri |-> UriFileToString(document[i].filepath),
                  range |-> [start |-> [line |-> 0, character |-> 0],
                             end |-> [line |-> 0, character |-> 0]]] >>

\* A document with two pragmas of existing files, and the position in the second.
C3_Witness ==
  /\ call.hook = "onReferences"
  /\ IsDefined(call.document)
  /\ Len(call.document[1]) = 2
  /\ PathExists(call.document[1][1].filepath)
  /\ PragmasAt(call.document[1], call.position) = {2}
  /\ Len(call.result[1]) = 1

\* The containing file after project.realpath, when the project offers it.
RealPathOf(containingFile) ==
  IF hasRealpath THEN Realpath(containingFile) ELSE containingFile

\* C4: in both resolution hooks, enabled, the resolver is never created with a
\* containing file that starts with "untitled:": the project's current directory
\* takes the place of such a (real) path, and any other (real) path is used.
C4_NoUntitledContainingFile ==
  (call.hook \in ResolveHooks /\ call.enable) =>
    /\ IsDefined(call.resolver)
    /\ ~StartsWith(call.resolver[1].containingFile, <<"u", "n", "t", "i", "t", "l", "e", "d", ":">>)
    /\ IF StartsWith(RealPathOf(call.containingFile), <<"u", "n", "t", "i", "t", "l", "e", "d", ":">>)
         THEN call.resolver[1].containingFile = GetCurrentDirectory
         ELSE call.resolver[1].containingFile = RealPathOf(call.containingFile)

\* A call for a document that was never saved.
C4_Witness ==
  /\ call.hook = "resolveTypeReferenceDirectives"
  /\ call.enable
  /\ call.containingFile = UntitledU
  /\ call.resolver[1].containingFile = GetCurrentDirectory

\* The calls `prev` and `call` have the same arguments under the same
\* configuration (the file system does not change).
SameCall ==
  /\ prev.hook = call.hook
  /\ prev.names = call.names
  /\ prev.containingFile = call.containingFile
  /\ prev.enable = call.enable
  /\ prev.import_map = call.import_map

C6_ImportMapsFilepath ==
  (call.hook \in ResolveHooks /\ call.enable) =>
    LET import_map == call.import_map
        filepath == call.resolver[1].importMapsFilepath
    IN /\ IsDefined(filepath) => IsAbsolute(filepath[1])
       /\ IF import_map = undefined \/ import_map = Some(<<>>) THEN filepath = undefined
          ELSE IF IsAbsolute(import_map[1]) THEN filepath = import_map
          ELSE filepath = Some(PathResolve(GetCurrentDirectory, import_map[1]))
       /\ import_map = Some(MapRel) => filepath = Some(GetCurrentDirectory \o <<"/">> \o MapRel)
       /\ import_map = Some(MapUp) => filepath = Some(MapAbs)

\* A call under an import map configured relative to the project's directory.
C6_Witness ==
  /\ call.hook = "resolveModuleNames"
  /\ call.enable
  /\ call.import_map = Some(MapUp)
  /\ call.resolver[1].importMapsFilepath = Some(MapAbs)

\* C7: the settings an enabled getCompilationSettings returns carry the plugin's
\* value for every option of MUST_OVERWRITE_OPTIONS; for any other option they
\* carry the project's value when the project sets it, and the plugin's default
\* when it does not.
C7_CompilationSettings ==
  (call.hook = "getCompilationSettings" /\ call.enable) =>
    \A k \in OptionKeys :
      IF k \in MustOverwriteKeys THEN call.result[k] = MUST_OVERWRITE_OPTIONS[k]
      ELSE IF IsDefined(call.hostResult[k]) THEN call.result[k] = call.hostResult[k]
      ELSE call.result[k] = DEFAULT_OPTIONS[k]

\* A project that sets jsx, which the plugin overwrites, and outDir, which it
\* does not.
C7_Witness ==
  /\ call.hook = "getCompilationSettings"
  /\ call.enable
  /\ call.hostResult["jsx"] = Some("Preserve")
  /\ call.hostResult["outDir"] = Some("dist")
  /\ call.result["jsx"] = Some("React")
  /\ call.result["outDir"] = Some("dist")

C9_DisabledIsTransparent ==
  (call.hook \in PluginHooks) =>
    /\ call.enable = config.enable
    /\ ~call.enable =>
         /\ call.result = call.hostResult
         /\ call.resolver = undefined
         /\ call.hook = "resolveModuleNames" =>
              /\ call.toHost = call.names
              /\ call.hostResult = HostResolveModuleNames(call.names, call.containingFile)
         /\ call.hook = "resolveTypeReferenceDirectives" =>
              /\ call.toHost = call.names
              /\ call.hostResult =
                   HostResolveTypeReferenceDirectives(call.names, call.containingFile)

\* A disabled call whose result holds a diagnostic the plugin ignores when enabled.
C9_Witness ==
  /\ call.hook = "getSemanticDiagnostics"
  /\ ~call.enable
  /\ Len(call.result) = 2
  /\ call.result[1].code = 2691

\* The number of occurrences of x in s.
Occurrences(s, x) == Cardinality({i \in 1..Len(s) : s[i] = x})

\* C10: an enabled getScriptFileNames returns the host's script file names
\* followed by one occurrence of the Deno declaration file, however many calls
\* came before, and leaves the list the host holds as it was.
C10_ScriptFileNamesNotAccumulated ==
  (call.hook = "getScriptFileNames" /\ call.enable) =>
    /\ call.result = Append(call.hostResult, DenoDts)
    /\ Occurrences(call.result, DenoDts) = 1
    /\ hostScriptFiles = call.hostResult

====
